---- MODULE Spec2Model ----
(***************************************************************************)
(* Rotary encoder library (rotary.h, rotary.cpp): the quadrature decoder   *)
(* (transition tables and Rotary::process) and the push-button detectors   *)
(* (buttonPressedReleased, buttonPressedHeld, readButton, resetButton).    *)
(***************************************************************************)
EXTENDS Integers, Sequences, FiniteSets

(***************************************************************************)
(* Bit arithmetic on unsigned char values.                                 *)
(***************************************************************************)
RECURSIVE BitAnd(_, _)
BitAnd(a, b) ==
  IF a = 0 \/ b = 0 THEN 0
  ELSE (a % 2) * (b % 2) + 2 * BitAnd(a \div 2, b \div 2)

RECURSIVE BitOr(_, _)
BitOr(a, b) ==
  IF a = 0 THEN b
  ELSE IF b = 0 THEN a
  ELSE (IF a % 2 = 1 \/ b % 2 = 1 THEN 1 ELSE 0) + 2 * BitOr(a \div 2, b \div 2)

RECURSIVE BitXor(_, _)
BitXor(a, b) ==
  IF a = 0 THEN b
  ELSE IF b = 0 THEN a
  ELSE ((a + b) % 2) + 2 * BitXor(a \div 2, b \div 2)

(***************************************************************************)
(* rotary.h: values returned by process.                                   *)
(***************************************************************************)
DIR_NONE == 0
DIR_CW == 16
DIR_CCW == 32

(***************************************************************************)
(* rotary.cpp: state names.  R_START and R_CW_BEGIN have the same value in *)
(* both builds; the other full-step names carry the suffix _F because the  *)
(* two builds reuse the names with different values.                       *)
(***************************************************************************)
R_START == 0
R_CCW_BEGIN == 1
R_CW_BEGIN == 2
R_START_M == 3
R_CW_BEGIN_M == 4
R_CCW_BEGIN_M == 5

R_CW_FINAL_F == 1
R_CW_NEXT_F == 3
R_CCW_BEGIN_F == 4
R_CCW_FINAL_F == 5
R_CCW_NEXT_F == 6

\* The mask that selects the table row and the mask that selects the event.
RowMask == 15
EmitMask == 48

(***************************************************************************)
(* Faulty variants of the half-step table: slips that are easy to make     *)
(* when writing such a table by hand.                                      *)
(***************************************************************************)
\* Row R_CW_BEGIN with its last two columns exchanged: the event moves from
\* sample 11 to sample 10.
ttableHalf_SwappedColumns ==
  << <<R_START,                  R_CCW_BEGIN,  R_CW_BEGIN,                R_START_M>>,
     <<R_START,                  R_CCW_BEGIN,  R_START,                   BitOr(R_START_M, DIR_CCW)>>,
     <<R_START,                  R_START,      BitOr(R_START_M, DIR_CW),  R_CW_BEGIN>>,
     <<R_START,                  R_CW_BEGIN_M, R_CCW_BEGIN_M,             R_START_M>>,
     <<BitOr(R_START, DIR_CW),   R_CW_BEGIN_M, R_START_M,                 R_START_M>>,
     <<BitOr(R_START, DIR_CCW),  R_START_M,    R_CCW_BEGIN_M,             R_START_M>> >>

\* The 11 entry of row R_START carries an event: a jump 00 -> 11 emits.
ttableHalf_EmitOnJump ==
  << <<R_START,                  R_CCW_BEGIN,  R_CW_BEGIN,    BitOr(R_START_M, DIR_CW)>>,
     <<R_START,                  R_CCW_BEGIN,  R_START,       BitOr(R_START_M, DIR_CCW)>>,
     <<R_START,                  R_START,      R_CW_BEGIN,    BitOr(R_START_M, DIR_CW)>>,
     <<R_START,                  R_CW_BEGIN_M, R_CCW_BEGIN_M, R_START_M>>,
     <<BitOr(R_START, DIR_CW),   R_CW_BEGIN_M, R_START_M,     R_START_M>>,
     <<BitOr(R_START, DIR_CCW),  R_START_M,    R_CCW_BEGIN_M, R_START_M>> >>

\* The second half of a clockwise step is tagged counter-clockwise.
ttableHalf_WrongTag ==
  << <<R_START,                  R_CCW_BEGIN,  R_CW_BEGIN,    R_START_M>>,
     <<R_START,                  R_CCW_BEGIN,  R_START,       BitOr(R_START_M, DIR_CCW)>>,
     <<R_START,                  R_START,      R_CW_BEGIN,    BitOr(R_START_M, DIR_CW)>>,
     <<R_START,                  R_CW_BEGIN_M, R_CCW_BEGIN_M, R_START_M>>,
     <<BitOr(R_START, DIR_CCW),  R_CW_BEGIN_M, R_START_M,     R_START_M>>,
     <<BitOr(R_START, DIR_CCW),  R_START_M,    R_CCW_BEGIN_M, R_START_M>> >>

\* Row R_CW_BEGIN returns to 00 with an event: a bounce 00 -> 10 -> 00 counts.
ttableHalf_CountsBounce ==
  << <<R_START,                  R_CCW_BEGIN,  R_CW_BEGIN,    R_START_M>>,
     <<R_START,                  R_CCW_BEGIN,  R_START,       BitOr(R_START_M, DIR_CCW)>>,
     <<BitOr(R_START, DIR_CCW),  R_START,      R_CW_BEGIN,    BitOr(R_START_M, DIR_CW)>>,
     <<R_START,                  R_CW_BEGIN_M, R_CCW_BEGIN_M, R_START_M>>,
     <<BitOr(R_START, DIR_CW),   R_CW_BEGIN_M, R_START_M,     R_START_M>>,
     <<BitOr(R_START, DIR_CCW),  R_START_M,    R_CCW_BEGIN_M, R_START_M>> >>

(***************************************************************************)
(* The half-step table (HALF_STEP defined, as rotary.h does).  Rows are    *)
(* states, columns the samples 00, 01, 10, 11; TLA+ sequences start at 1,  *)
(* so row r and sample p are found at [r + 1][p + 1].                      *)
(***************************************************************************)
ttableHalf ==
  << <<R_START,                  R_CCW_BEGIN,  R_CW_BEGIN,    R_START_M>>,
     <<R_START,                  R_CCW_BEGIN,  R_START,       BitOr(R_START_M, DIR_CCW)>>,
     <<R_START,                  R_START,      R_CW_BEGIN,    BitOr(R_START_M, DIR_CW)>>,
     <<R_START,                  R_CW_BEGIN_M, R_CCW_BEGIN_M, R_START_M>>,
     <<BitOr(R_START, DIR_CW),   R_CW_BEGIN_M, R_START_M,     R_START_M>>,
     <<BitOr(R_START, DIR_CCW),  R_START_M,    R_CCW_BEGIN_M, R_START_M>> >>

(***************************************************************************)
(* The full-step table (HALF_STEP not defined).                            *)
(***************************************************************************)
ttableFull ==
  << <<R_START,                  R_CCW_BEGIN_F, R_CW_BEGIN,    R_START>>,
     <<BitOr(R_START, DIR_CW),   R_CW_FINAL_F,  R_START,       R_CW_NEXT_F>>,
     <<R_START,                  R_START,       R_CW_BEGIN,    R_CW_NEXT_F>>,
     <<R_START,                  R_CW_FINAL_F,  R_CW_BEGIN,    R_CW_NEXT_F>>,
     <<R_START,                  R_CCW_BEGIN_F, R_START,       R_CCW_NEXT_F>>,
     <<BitOr(R_START, DIR_CCW),  R_START,       R_CCW_FINAL_F, R_CCW_NEXT_F>>,
     <<R_START,                  R_CCW_BEGIN_F, R_CCW_FINAL_F, R_CCW_NEXT_F>> >>

Modes == {"half", "full"}

ttable(m) == IF m = "half" THEN ttableHalf ELSE ttableFull

\* The rows the active table has.
Rows(m) == 0 .. (Len(ttable(m)) - 1)

\* Faulty variant: the stored state is used as the row without masking.
RowIndex_NoMask(s) == s

\* state & 0xf
RowIndex(s) == BitAnd(s, RowMask)

\* Faulty variant: the whole state is returned, state bits included.
EmitBits_NoMask(s) == s

\* state & 0x30
EmitBits(s) == BitAnd(s, EmitMask)

\* (digitalRead(pin2) << 1) | digitalRead(pin1)
PinState(p1, p2) == BitOr(p2 * 2, p1)

\* ttable[state & 0xf][pinstate]
Lookup(m, s, p) == ttable(m)[RowIndex(s) + 1][p + 1]


(***************************************************************************)
(* Bounds of the model.                                                    *)
(***************************************************************************)
\* How many of the latest process() calls the recorded window keeps.
MaxWindow == 5

\* Width in bits of the millisecond counter (32 in the program).
ClockWidth == 3

\* The latest clock value a run reaches, the longest time between two calls
\* of a detector, and the longest delay a caller passes.
MaxTime == 6
MaxStep == 2
MaxDelay == 2

\* The latest clock value of a run that uses encoder and button together.
MaxTimeAll == 2

Mod == 2 ^ ClockWidth

NoSample == 0 - 1
NoTime == 0 - 1

\* digitalRead: 0 is LOW (button closed), 1 is HIGH (button open).
Levels == {0, 1}

Delays == 0 .. MaxDelay

(***************************************************************************)
(* rotary.h: button states.                                                *)
(***************************************************************************)
BUTTON_RESET == 0
BUTTON_PRESSED == 1
BUTTON_RELEASED == 16
BUTTON_PRESSED_RELEASED == 17

\* Faulty variant: the delay counts as elapsed when it is just reached.
Expired_AtLeast(now, timer, d) == ((now - timer) % Mod) >= (d % Mod)

\* Faulty variant: the difference is taken without wrapping, as in a signed
\* comparison.
Expired_NoWrap(now, timer, d) == now - timer > d

\* millis() - buttonTimer > delay, in unsigned long arithmetic: the difference
\* wraps modulo 2^ClockWidth and the short delay is converted to unsigned.
Expired(now, timer, d) == ((now - timer) % Mod) > (d % Mod)

\* Faulty variant: a reported cycle leaves Pressed|Released in buttonState.
PressedReleased_NoReset(bs, timer, now, d, lvl) ==
  LET s1 == IF bs = BUTTON_PRESSED
              THEN IF Expired(now, timer, d) /\ lvl # 0
                     THEN BitOr(bs, BUTTON_RELEASED)
                     ELSE bs
              ELSE IF lvl = 0 THEN BitOr(bs, BUTTON_PRESSED) ELSE bs
      t1 == IF bs # BUTTON_PRESSED /\ lvl = 0 THEN now ELSE timer
  IN [state |-> s1, timer |-> t1,
      ret |-> (s1 = BitOr(BUTTON_PRESSED, BUTTON_RELEASED))]

(***************************************************************************)
(* Rotary::buttonPressedReleased as a function of the fields, the clock,   *)
(* the delay and the level the button line reads: the new buttonState, the *)
(* new buttonTimer and the value returned.                                 *)
(***************************************************************************)
PressedReleased(bs, timer, now, d, lvl) ==
  LET s1 == IF bs = BUTTON_PRESSED
              THEN IF Expired(now, timer, d) /\ lvl # 0
                     THEN BitOr(bs, BUTTON_RELEASED)
                     ELSE bs
              ELSE IF lvl = 0 THEN BitOr(bs, BUTTON_PRESSED) ELSE bs
      t1 == IF bs # BUTTON_PRESSED /\ lvl = 0 THEN now ELSE timer
  IN IF s1 = BitOr(BUTTON_PRESSED, BUTTON_RELEASED)
       THEN [state |-> BUTTON_RESET, timer |-> t1, ret |-> TRUE]
       ELSE [state |-> s1, timer |-> t1, ret |-> FALSE]

\* Faulty variant: an open line does not reset a press in progress, so the
\* time held before a release counts toward the next hold.
PressedHeld_KeepsPress(bs, timer, now, h, lvl) ==
  IF lvl = 0
    THEN IF bs # BUTTON_PRESSED
           THEN [state |-> BUTTON_PRESSED, timer |-> now, ret |-> FALSE]
           ELSE IF Expired(now, timer, h)
                  THEN [state |-> BUTTON_RESET, timer |-> timer, ret |-> TRUE]
                  ELSE [state |-> bs, timer |-> timer, ret |-> FALSE]
    ELSE [state |-> bs, timer |-> timer, ret |-> FALSE]

(***************************************************************************)
(* Rotary::buttonPressedHeld, likewise.                                    *)
(***************************************************************************)
PressedHeld(bs, timer, now, h, lvl) ==
  IF lvl = 0
    THEN IF bs # BUTTON_PRESSED
           THEN [state |-> BUTTON_PRESSED, timer |-> now, ret |-> FALSE]
           ELSE IF Expired(now, timer, h)
                  THEN [state |-> BUTTON_RESET, timer |-> timer, ret |-> TRUE]
                  ELSE [state |-> bs, timer |-> timer, ret |-> FALSE]
    ELSE IF bs = BUTTON_PRESSED
           THEN [state |-> BUTTON_RESET, timer |-> timer, ret |-> FALSE]
           ELSE [state |-> bs, timer |-> timer, ret |-> FALSE]

\* Faulty variant: the levels are taken the wrong way round.
ReadLevel_Inverted(lvl) == IF lvl # 0 THEN BUTTON_PRESSED ELSE BUTTON_RELEASED

\* Rotary::readButton
ReadLevel(lvl) == IF lvl # 0 THEN BUTTON_RELEASED ELSE BUTTON_PRESSED

\* The values an unsigned char that was never assigned may hold: the four
\* named button states and one value that is none of them.
IndeterminateBytes ==
  {BUTTON_RESET, BUTTON_PRESSED, BUTTON_RELEASED, BUTTON_PRESSED_RELEASED, 255}

(***************************************************************************)
(* State.  mode .. result are the decoder: the table the build selected,   *)
(* the field Rotary::state, the sample process() read last and the value   *)
(* it returned last.  buttonState and buttonTimer are the button fields,   *)
(* clock is millis(), level the level the button line read last, delay the *)
(* argument and ret the return value of the last detector call, read the   *)
(* value readButton returned last.  op names the operation that ran last.  *)
(***************************************************************************)
VARIABLES mode, state, pinstate, result, op,
          buttonState, buttonTimer, clock, level, delay, ret, read

(***************************************************************************)
(* History kept for the properties.  Of the decoder: the sample and the    *)
(* state before the last call, a window of the latest calls, and the       *)
(* progress of the samples since the last settled sample; whether a        *)
(* two-bit jump has been sampled and no 00 after it (barred) and whether   *)
(* the last call was made in that condition (inBar); whether every sample  *)
(* since construction differed from its predecessor in at most one bit     *)
(* (legal, followed for the half-step table), and for such a run the       *)
(* quarter steps moved since the last settled sample (offset), the         *)
(* direction the arrival at a new settled sample calls for (legalDir) and  *)
(* the events returned less the half-steps moved (err).  Of the button:    *)
(* a monitor of the press-release cycle that starts whenever buttonState   *)
(* is Reset (mon, monT0, expect, checked), the time at which a call last   *)
(* sampled the line closed and wrote buttonTimer (pressAt), and a monitor  *)
(* of a press that is released early (phase, shortExpect, shortChecked);   *)
(* a monitor of the hold that starts whenever buttonState is Reset or      *)
(* buttonPressedHeld takes a press for a new one (hmon, hT0, hExpect,      *)
(* hChecked), and whether buttonPressedHeld has already returned true      *)
(* while the line stayed closed (fired, refired).                          *)
(***************************************************************************)
VARIABLES recording, prevPin, prevState, window,
          lastSettled, firstSince, jumped, canon,
          barred, inBar, legal, offset, legalDir, err,
          mon, monT0, expect, checked, pressAt,
          phase, shortExpect, shortChecked,
          hmon, hT0, hExpect, hChecked, fired, refired

(***************************************************************************)
(* What the remaining button properties refer to: whether buttonState has  *)
(* been Reset at some call boundary (everReset), whether any call sampled  *)
(* the line closed (sawClosed), whether resetButton was called and no      *)
(* detector has sampled the line closed since, and whether it found a      *)
(* press in progress (afterReset), the milliseconds that really passed     *)
(* since the press a detector call found pending (since, pending), and     *)
(* the millisecond at which the run ends, NoTime for a run without end     *)
(* (horizon).  The history and the monitors are kept where recording is    *)
(* TRUE; afterReset, since, pending and horizon are kept always.           *)
(***************************************************************************)
VARIABLES everReset, sawClosed, afterReset, since, pending, horizon

decoderVars == <<mode, state, pinstate, result>>
buttonVars == <<buttonState, buttonTimer, clock, level, delay, ret, read>>
historyVars == <<recording, prevPin, prevState, window,
                 lastSettled, firstSince, jumped, canon,
                 barred, inBar, legal, offset, legalDir, err>>
monitorVars == <<mon, monT0, expect, checked, pressAt,
                 phase, shortExpect, shortChecked>>
heldVars == <<hmon, hT0, hExpect, hChecked, fired, refired>>
watchVars == <<monitorVars, heldVars, everReset, sawClosed>>
frameVars == <<afterReset, since, pending, horizon>>
vars == <<decoderVars, op, buttonVars, historyVars, watchVars, frameVars>>

(***************************************************************************)
(* The reference the properties compare the decoder with: the gray-code    *)
(* cycle 00 -> 10 -> 11 -> 01 -> 00 is clockwise, its mirror is            *)
(* counter-clockwise.                                                      *)
(***************************************************************************)
CanonCW == <<0, 2, 3, 1, 0>>
CanonCCW == <<0, 1, 3, 2, 0>>

CWNext(p) == CASE p = 0 -> 2 [] p = 2 -> 3 [] p = 3 -> 1 [] p = 1 -> 0 [] OTHER -> NoSample
CCWNext(p) == CASE p = 0 -> 1 [] p = 1 -> 3 [] p = 3 -> 2 [] p = 2 -> 0 [] OTHER -> NoSample

\* The samples at which an event may be emitted.
Settled(m, p) == IF m = "half" THEN p \in {0, 3} ELSE p = 0

\* Both bits differ.
TwoBitJump(a, b) == a # NoSample /\ b # NoSample /\ BitXor(a, b) = 3

\* The direction the samples since the last settled sample allow at sample p:
\* they started one place after the settled sample, arrived one place before
\* p, and no two-bit jump happened among them or into p.
Allowed(m, p) ==
  IF ~Settled(m, p) \/ jumped \/ TwoBitJump(pinstate, p) \/ firstSince = NoSample
    THEN DIR_NONE
  ELSE IF firstSince = CWNext(lastSettled) /\ CWNext(pinstate) = p THEN DIR_CW
  ELSE IF firstSince = CCWNext(lastSettled) /\ CCWNext(pinstate) = p THEN DIR_CCW
  ELSE DIR_NONE

Trim(w) == IF Len(w) > MaxWindow THEN Tail(w) ELSE w

\* At most one bit differs.
OneBit(a, b) == BitXor(a, b) \in {0, 1, 2}

\* The sample before the first call is the 00 the lines read at construction.
Before == IF pinstate = NoSample THEN 0 ELSE pinstate

\* Half-step motion: the direction due when sample p follows sample a and the
\* settled sample visited last was last.
HalfStepDir(a, last, p) ==
  IF p \in {0, 3} /\ p # last
    THEN IF (p = 3 /\ a = 2) \/ (p = 0 /\ a = 1) THEN DIR_CW ELSE DIR_CCW
    ELSE DIR_NONE

\* Quarter steps from sample a to sample p, clockwise positive.
QuarterMove(a, p) ==
  IF CWNext(a) = p THEN 1 ELSE IF CCWNext(a) = p THEN 0 - 1 ELSE 0

\* An event as a count.
Signed(d) == IF d = DIR_CW THEN 1 ELSE IF d = DIR_CCW THEN 0 - 1 ELSE 0

\* A difference of counts is followed up to two either way.
Clamp(x) == IF x > 2 THEN 2 ELSE IF x < 0 - 2 THEN 0 - 2 ELSE x

(***************************************************************************)
(* Rotary::Rotary and Rotary::init: state = R_START.                       *)
(***************************************************************************)
InitDecoder ==
  /\ mode \in Modes
  /\ state = R_START
  /\ pinstate = NoSample
  /\ result = DIR_NONE
  /\ prevPin = NoSample
  /\ prevState = R_START
  /\ window = <<>>
  /\ lastSettled = 0
  /\ firstSince = NoSample
  /\ jumped = FALSE
  /\ canon = DIR_NONE
  /\ barred = FALSE
  /\ inBar = FALSE
  /\ legal = TRUE
  /\ offset = 0
  /\ legalDir = DIR_NONE
  /\ err = 0

(***************************************************************************)
(* Rotary::process with the two encoder lines reading p1 and p2.           *)
(***************************************************************************)
Process(p1, p2) ==
  LET p == PinState(p1, p2)
      s == Lookup(mode, state, p)
  IN /\ state' = s
     /\ result' = EmitBits(s)
     /\ pinstate' = p
     /\ op' = "process"
     /\ UNCHANGED <<mode, recording, buttonVars, watchVars, frameVars>>
     /\ IF recording
          THEN /\ prevPin' = pinstate
               /\ prevState' = state
               /\ window' = Trim(Append(window,
                                 [pre |-> state, pin |-> p, out |-> EmitBits(s)]))
               /\ canon' = Allowed(mode, p)
               /\ IF Settled(mode, p)
                    THEN /\ lastSettled' = p
                         /\ firstSince' = NoSample
                         /\ jumped' = FALSE
                    ELSE /\ lastSettled' = lastSettled
                         /\ firstSince' = IF firstSince = NoSample THEN p ELSE firstSince
                         /\ jumped' = (jumped \/ TwoBitJump(pinstate, p))
               /\ inBar' = barred
               /\ barred' = (TwoBitJump(pinstate, p) \/ (barred /\ p # 0))
               /\ LET to == offset + QuarterMove(Before, p)
                      half == IF to = 2 THEN 1 ELSE IF to = 0 - 2 THEN 0 - 1 ELSE 0
                  IN IF mode = "half" /\ legal /\ OneBit(Before, p)
                       THEN /\ legal' = TRUE
                            /\ legalDir' = HalfStepDir(Before, lastSettled, p)
                            /\ offset' = IF p \in {0, 3} THEN 0 ELSE to
                            /\ err' = IF p \in {0, 3}
                                        THEN Clamp(err + Signed(EmitBits(s)) - half)
                                        ELSE Clamp(err + Signed(EmitBits(s)))
                       ELSE /\ legal' = FALSE
                            /\ legalDir' = DIR_NONE
                            /\ offset' = 0
                            /\ err' = 0
          ELSE UNCHANGED <<prevPin, prevState, window,
                           lastSettled, firstSince, jumped, canon,
                           barred, inBar, legal, offset, legalDir, err>>

ProcessStep == \E p1 \in {0, 1}, p2 \in {0, 1} : Process(p1, p2)

(***************************************************************************)
(* Rotary::Rotary(char, char, char): buttonTimer = 0; buttonState is not   *)
(* assigned, so it holds whatever the object's storage held.               *)
(***************************************************************************)
InitMonitor ==
  /\ mon = IF buttonState = BUTTON_RESET THEN "idle" ELSE "off"
  /\ monT0 = NoTime
  /\ expect = FALSE
  /\ checked = FALSE
  /\ pressAt = NoTime
  /\ phase = "none"
  /\ shortExpect = FALSE
  /\ shortChecked = FALSE
  /\ hmon = IF buttonState = BUTTON_RESET THEN "idle" ELSE "off"
  /\ hT0 = NoTime
  /\ hExpect = FALSE
  /\ hChecked = "no"
  /\ fired = FALSE
  /\ refired = FALSE
  /\ everReset = (buttonState = BUTTON_RESET)
  /\ sawClosed = FALSE
  /\ afterReset = "no"
  /\ since = NoTime
  /\ pending = FALSE

InitButton ==
  /\ buttonTimer = 0
  /\ buttonState \in IndeterminateBytes
  /\ clock = 0
  /\ level = 1
  /\ delay = 0
  /\ ret = FALSE
  /\ read = BUTTON_RELEASED
  /\ InitMonitor

\* The same object in static storage, which is zeroed before the constructor
\* runs.
InitButtonStatic ==
  /\ buttonTimer = 0
  /\ buttonState = BUTTON_RESET
  /\ clock = 0
  /\ level = 1
  /\ delay = 0
  /\ ret = FALSE
  /\ read = BUTTON_RELEASED
  /\ InitMonitor

(***************************************************************************)
(* The monitors.  A detector call is described by the operation, the clock *)
(* value it reads, its delay, the level it samples, and the fields it      *)
(* leaves behind.                                                          *)
(***************************************************************************)
\* A detector call that samples the line closed while buttonState is not
\* Pressed takes the press for a new one and writes the press time.
Detects(lvl) == lvl = 0 /\ buttonState # BUTTON_PRESSED

\* The press-release cycle as the button's user sees it: idle until the line
\* is sampled closed at monT0, then reported by the first call that samples
\* the line open more than the delay after monT0.
MonitorPR(now, d, lvl, out) ==
  LET due == mon = "pressed" /\ lvl # 0 /\ now - monT0 > d
  IN /\ expect' = due
     /\ checked' = (mon # "off")
     /\ mon' = CASE mon = "off" -> IF out.state = BUTTON_RESET THEN "idle" ELSE "off"
                 [] mon = "idle" -> IF lvl = 0 THEN "pressed" ELSE "idle"
                 [] OTHER -> IF due THEN "idle" ELSE "pressed"
     /\ monT0' = IF mon = "idle" /\ lvl = 0 THEN now ELSE monT0

MonitorOther(bs) ==
  /\ expect' = FALSE
  /\ checked' = FALSE
  /\ mon' = IF bs = BUTTON_RESET THEN "idle" ELSE "off"
  /\ monT0' = monT0

\* A press that buttonPressedReleased detected at pressAt and that is sampled
\* open for the first time no later than the delay after it: while the line
\* stays open, a call is due to return true exactly when more than the delay
\* has passed since pressAt.
MonitorShort(now, d, lvl) ==
  LET detects == Detects(lvl)
      t0 == pressAt
      inScope == lvl # 0 /\ (phase = "open" \/ (phase = "detected" /\ now - t0 <= d))
  IN /\ shortChecked' = inScope
     /\ shortExpect' = (inScope /\ now - t0 > d)
     /\ phase' = IF detects THEN "detected"
                 ELSE IF inScope /\ ~(now - t0 > d) THEN "open"
                 ELSE IF phase = "detected" /\ lvl = 0 THEN "detected"
                 ELSE "none"

\* The hold as the button's user sees it: idle until the line is sampled
\* closed at hT0; an open sample ends the hold unreported; a closed sample
\* more than the delay after hT0 reports it.  Where the monitor is off, it
\* starts with the call that takes a press for a new one.
MonitorHeld(now, h, lvl, out) ==
  LET due == hmon = "held" /\ lvl = 0 /\ now - hT0 > h
      starts == lvl = 0 /\ (hmon = "idle" \/ (hmon = "off" /\ Detects(lvl)))
  IN /\ hExpect' = due
     /\ hChecked' = IF hmon = "off" THEN "no" ELSE hmon
     /\ hmon' = IF starts THEN "held"
               ELSE IF hmon = "off"
                 THEN (IF out.state = BUTTON_RESET THEN "idle" ELSE "off")
               ELSE IF hmon = "held" /\ lvl = 0 /\ ~due THEN "held"
               ELSE "idle"
     /\ hT0' = IF starts THEN now ELSE hT0
     /\ refired' = (fired /\ lvl = 0 /\ out.ret)
     /\ fired' = (lvl = 0 /\ (fired \/ out.ret))

HeldOther(bs) ==
  /\ hExpect' = FALSE
  /\ hChecked' = "no"
  /\ hmon' = IF bs = BUTTON_RESET THEN "idle" ELSE "off"
  /\ hT0' = hT0
  /\ fired' = FALSE
  /\ refired' = FALSE

\* What a detector call that samples lvl, dt milliseconds after the previous
\* reading of the clock, leaves for the frame variables.  The time since the
\* press is followed only while the press is pending and is not counted
\* beyond one period of the clock.
FrameDetector(lvl, dt) ==
  /\ afterReset' = IF lvl = 0 THEN "no" ELSE afterReset
  /\ horizon' = horizon
  /\ pending' = (~Detects(lvl) /\ buttonState = BUTTON_PRESSED /\ since # NoTime)
  /\ since' = IF Detects(lvl) THEN 0
             ELSE IF buttonState # BUTTON_PRESSED \/ since = NoTime THEN NoTime
             ELSE IF since + dt > Mod THEN Mod
             ELSE since + dt

\* Whether a call at millisecond now is within the run.
InRun(now) == horizon = NoTime \/ now <= horizon

(***************************************************************************)
(* Rotary::buttonPressedReleased(d), called dt milliseconds after the      *)
(* previous detector call, with the button line reading lvl.               *)
(***************************************************************************)
ButtonPressedReleased(d, lvl, dt) ==
  LET now == clock + dt
      out == PressedReleased(buttonState, buttonTimer, now % Mod, d, lvl)
  IN /\ InRun(now)
     /\ clock' = now % Mod
     /\ buttonState' = out.state
     /\ buttonTimer' = out.timer
     /\ ret' = out.ret
     /\ level' = lvl
     /\ delay' = d
     /\ op' = "buttonPressedReleased"
     /\ FrameDetector(lvl, dt)
     /\ IF recording
          THEN /\ MonitorPR(now, d, lvl, out)
               /\ MonitorShort(now, d, lvl)
               /\ pressAt' = IF Detects(lvl) THEN now ELSE pressAt
               /\ HeldOther(out.state)
               /\ everReset' = (everReset \/ out.state = BUTTON_RESET)
               /\ sawClosed' = (sawClosed \/ lvl = 0)
          ELSE UNCHANGED watchVars
     /\ UNCHANGED <<decoderVars, historyVars, read>>

(***************************************************************************)
(* Rotary::buttonPressedHeld(h), likewise.                                 *)
(***************************************************************************)
ButtonPressedHeld(h, lvl, dt) ==
  LET now == clock + dt
      out == PressedHeld(buttonState, buttonTimer, now % Mod, h, lvl)
  IN /\ InRun(now)
     /\ clock' = now % Mod
     /\ buttonState' = out.state
     /\ buttonTimer' = out.timer
     /\ ret' = out.ret
     /\ level' = lvl
     /\ delay' = h
     /\ op' = "buttonPressedHeld"
     /\ FrameDetector(lvl, dt)
     /\ IF recording
          THEN /\ MonitorOther(out.state)
               /\ pressAt' = IF Detects(lvl) THEN now ELSE pressAt
               /\ phase' = "none"
               /\ shortChecked' = FALSE
               /\ shortExpect' = FALSE
               /\ MonitorHeld(now, h, lvl, out)
               /\ everReset' = (everReset \/ out.state = BUTTON_RESET)
               /\ sawClosed' = (sawClosed \/ lvl = 0)
          ELSE UNCHANGED watchVars
     /\ UNCHANGED <<decoderVars, historyVars, read>>

(***************************************************************************)
(* Rotary::readButton with the button line reading lvl.                    *)
(***************************************************************************)
ReadButton(lvl) ==
  /\ read' = ReadLevel(lvl)
  /\ level' = lvl
  /\ op' = "readButton"
  /\ IF recording
       THEN /\ fired' = (fired /\ lvl = 0)
            /\ sawClosed' = (sawClosed \/ lvl = 0)
            /\ UNCHANGED <<monitorVars, hmon, hT0, hExpect, hChecked, refired,
                           everReset>>
       ELSE UNCHANGED watchVars
  /\ UNCHANGED <<decoderVars, historyVars, frameVars,
                 buttonState, buttonTimer, clock, delay, ret>>

\* Faulty variant: resetButton clears the Released flag only.
ResetState_ClearsReleasedOnly(bs) == BitAnd(bs, BUTTON_PRESSED)

\* The value resetButton assigns to buttonState.
ResetState(bs) == BUTTON_RESET

(***************************************************************************)
(* Rotary::resetButton                                                     *)
(***************************************************************************)
ResetButton ==
  /\ buttonState' = ResetState(buttonState)
  /\ op' = "resetButton"
  /\ afterReset' = IF BitAnd(buttonState, BUTTON_PRESSED) # 0
                    THEN "discarded" ELSE "idle"
  /\ since' = NoTime
  /\ pending' = FALSE
  /\ IF recording
       THEN /\ MonitorOther(ResetState(buttonState))
            /\ phase' = "none"
            /\ shortChecked' = FALSE
            /\ shortExpect' = FALSE
            /\ HeldOther(ResetState(buttonState))
            /\ everReset' = (everReset \/ ResetState(buttonState) = BUTTON_RESET)
            /\ UNCHANGED <<pressAt, sawClosed>>
       ELSE UNCHANGED watchVars
  /\ UNCHANGED <<decoderVars, historyVars, horizon,
                 buttonTimer, clock, level, delay, ret, read>>

PressedReleasedStep ==
  \E d \in Delays, lvl \in Levels, dt \in 0 .. MaxStep : ButtonPressedReleased(d, lvl, dt)

PressedHeldStep ==
  \E h \in Delays, lvl \in Levels, dt \in 0 .. MaxStep : ButtonPressedHeld(h, lvl, dt)

ReadButtonStep == \E lvl \in Levels : ReadButton(lvl)

(***************************************************************************)
(* The decoder alone, with its history recorded: an object built by the    *)
(* two-pin constructor, whose button fields no operation reads.            *)
(***************************************************************************)
InitD ==
  /\ InitDecoder
  /\ op = "init"
  /\ recording = TRUE
  /\ horizon = MaxTime
  /\ InitButtonStatic

NextD == ProcessStep

SpecDecoder == InitD /\ [][NextD]_vars

(***************************************************************************)
(* The button alone: an object built by the three-pin constructor whose    *)
(* encoder lines are not sampled.                                          *)
(***************************************************************************)
InitB ==
  /\ InitDecoder
  /\ mode = "half"
  /\ op = "init"
  /\ recording = TRUE
  /\ horizon = MaxTime
  /\ InitButton

InitBStatic ==
  /\ InitDecoder
  /\ mode = "half"
  /\ op = "init"
  /\ recording = TRUE
  /\ horizon = MaxTime
  /\ InitButtonStatic

NextB ==
  \/ PressedReleasedStep
  \/ PressedHeldStep
  \/ ReadButtonStep
  \/ ResetButton

SpecButton == InitB /\ [][NextB]_vars

SpecButtonStatic == InitBStatic /\ [][NextB]_vars

(***************************************************************************)
(* The button over a run longer than the period of the millisecond clock:  *)
(* millis() wraps to 0 after 2^ClockWidth - 1.                             *)
(***************************************************************************)
InitW ==
  /\ InitDecoder
  /\ mode = "half"
  /\ op = "init"
  /\ recording = FALSE
  /\ horizon = NoTime
  /\ InitButton

SpecWrap == InitW /\ [][NextB]_vars

(***************************************************************************)
(* Encoder and button of one object used together: process interleaved    *)
(* with the four button operations.                                        *)
(***************************************************************************)
InitAll ==
  /\ InitDecoder
  /\ mode = "half"
  /\ op = "init"
  /\ recording = FALSE
  /\ horizon = MaxTimeAll
  /\ InitButton

NextAll ==
  \/ ProcessStep
  \/ PressedReleasedStep
  \/ PressedHeldStep
  \/ ReadButtonStep
  \/ ResetButton

SpecAll == InitAll /\ [][NextAll]_vars

(***************************************************************************)
(* Properties of the decoder.                                              *)
(***************************************************************************)
\* The latest n recorded calls, oldest first.
LastCalls(n) == SubSeq(window, Len(window) - n + 1, Len(window))

PinsOf(w) == [i \in 1 .. Len(w) |-> w[i].pin]

CountOut(w, d) == Cardinality({i \in 1 .. Len(w) : w[i].out = d})

\* The latest calls sampled exactly seq, the first of them from a neutral state.
CleanRun(seq) ==
  /\ Len(window) >= Len(seq)
  /\ PinsOf(LastCalls(Len(seq))) = seq
  /\ RowIndex(LastCalls(Len(seq))[1].pre) = R_START

StepEvents(seq, dir, other) ==
  CleanRun(seq) =>
    LET w == LastCalls(Len(seq))
    IN /\ CountOut(w, other) = 0
       /\ CountOut(w, dir) = (IF mode = "half" THEN 2 ELSE 1)
       /\ mode = "half" => (w[3].out = dir /\ w[5].out = dir)

\* C1: from the neutral state, the clean samples 00,10,11,01,00 give exactly
\* one Clockwise event with the full-step table and exactly two (at 11 and at
\* the final 00) with the half-step table, and no CounterClockwise event; the
\* mirror 00,01,11,10,00 gives the same counts of CounterClockwise events and
\* no Clockwise event.
C1_CleanTraversal ==
  /\ StepEvents(CanonCW, DIR_CW, DIR_CCW)
  /\ StepEvents(CanonCCW, DIR_CCW, DIR_CW)

C1_Witness == CleanRun(CanonCCW) /\ mode = "half" /\ result = DIR_CCW

\* C2: process() returns a direction only if the samples since the most
\* recent settled sample were the in-order intermediate samples of that
\* direction, with no two-bit jump among them.
C2_OnlyAfterCanonicalSamples ==
  (op = "process" /\ result # DIR_NONE) => result = canon

\* C3: a call whose sample differs from the previously processed sample in
\* both bits returns DIR_NONE.
C3_NoEventOnJump ==
  (op = "process" /\ TwoBitJump(prevPin, pinstate)) => result = DIR_NONE

C3_Witness ==
  /\ op = "process"
  /\ TwoBitJump(prevPin, pinstate)
  /\ RowIndex(prevState) \notin {R_START, R_START_M}

\* C4: the row index state & 0xf is always a row of the active table, also
\* while the stored state carries direction bits.
C4_RowInBounds == RowIndex(state) \in Rows(mode)

C4_Witness ==
  /\ op = "process"
  /\ EmitBits(prevState) # DIR_NONE
  /\ RowIndex(state) # RowIndex(prevState)

\* C5: a call whose sample equals the previously processed sample returns
\* DIR_NONE.
C5_NoEventOnRepeat ==
  (op = "process" /\ prevPin = pinstate) => result = DIR_NONE

C5_Witness ==
  /\ op = "process"
  /\ prevPin = pinstate
  /\ EmitBits(prevState) # DIR_NONE

\* C6: a call whose sample equals the previously processed sample leaves the
\* decoder where it was.  The direction bits the stored state carries right
\* after an event are output, so the position is compared by its row.
C6_RepeatKeepsState ==
  (op = "process" /\ prevPin = pinstate) => RowIndex(state) = RowIndex(prevState)

\* C7: every value process() returns is DIR_NONE, DIR_CW or DIR_CCW.
C7_ReturnIsDirection ==
  op = "process" => result \in {DIR_NONE, DIR_CW, DIR_CCW}

C7_Witness ==
  /\ op = "process"
  /\ result = DIR_CCW
  /\ state # DIR_CCW


(***************************************************************************)
(* Properties of buttonPressedReleased.                                    *)
(***************************************************************************)
\* C8: from button state Reset and with buttonPressedReleased the only
\* operation called, a call returns true exactly when a press was sampled
\* earlier in the cycle, the line reads open and more than the delay has
\* passed since the press was first sampled; every other call returns false;
\* after a true return the state is Reset.
C8_TrueOncePerCycle ==
  (op = "buttonPressedReleased" /\ checked) =>
    /\ ret = expect
    /\ ret => buttonState = BUTTON_RESET

C8_Witness ==
  /\ op = "buttonPressedReleased"
  /\ checked
  /\ ret
  /\ delay > 0
  /\ clock - monT0 > delay + 1

\* C9: whenever buttonPressedReleased returns true, an earlier call sampled
\* the line closed and recorded the press time, buttonTimer still holds that
\* time, more than the delay has passed since it, and the line reads open.
C9_TrueOnlyAfterPress ==
  (op = "buttonPressedReleased" /\ ret) =>
    /\ pressAt # NoTime
    /\ buttonTimer = pressAt
    /\ clock - pressAt > delay
    /\ level # 0

\* C10: after buttonPressedReleased detected a press at t0 and the line is
\* sampled open no later than the delay after t0 and stays open, a call
\* returns false and leaves the press pending while now - t0 <= delay, and
\* returns true as soon as now - t0 > delay.
C10_ShortPressReported ==
  (op = "buttonPressedReleased" /\ shortChecked) =>
    /\ ret = shortExpect
    /\ ~ret => buttonState = BUTTON_PRESSED


(***************************************************************************)
(* Properties of buttonPressedHeld.                                        *)
(***************************************************************************)
\* C11, as claimed: with the line held closed since the press was detected at
\* t0, a later call returns true exactly when now - t0 >= h, in particular at
\* now - t0 = h.
C11_FiresAtThreshold ==
  (op = "buttonPressedHeld" /\ hChecked = "held" /\ level = 0) =>
    ret = (clock - hT0 >= delay)

\* C11, amended: with the line held closed since the press was detected at
\* t0, a later call returns false while now - t0 <= h and the first call with
\* now - t0 > h returns true and resets the button state to Reset.
C11_FiresAfterThreshold ==
  (op = "buttonPressedHeld" /\ hChecked = "held" /\ level = 0) =>
    /\ ret = (clock - hT0 > delay)
    /\ ret => buttonState = BUTTON_RESET
    /\ ~ret => buttonState = BUTTON_PRESSED

C11_Witness ==
  /\ op = "buttonPressedHeld"
  /\ hChecked = "held"
  /\ level = 0
  /\ ret
  /\ delay > 0
  /\ clock - hT0 = delay + 1

\* C12: once buttonPressedHeld has returned true, it returns false on every
\* later call for as long as the line stays closed.
C12_FiresOncePerHold == ~refired

\* C13: when the line is sampled open after a press was detected and before
\* the hold was reported, the call returns false and resets the state; no
\* call returns true for that press, and a true return always rests on the
\* time of the press detected after the last open sample.
C13_ShortHoldDropped ==
  (op = "buttonPressedHeld" /\ hChecked # "no") =>
    /\ (hChecked = "held" /\ level # 0) => (~ret /\ buttonState = BUTTON_RESET)
    /\ ret = hExpect
    /\ ret => (buttonTimer = hT0 /\ clock - hT0 > delay)

C13_Witness ==
  /\ op = "buttonPressedHeld"
  /\ hChecked = "held"
  /\ level # 0
  /\ clock - hT0 > 0
  /\ clock - hT0 <= delay


(***************************************************************************)
(* Properties of resetButton, readButton and the button state.             *)
(***************************************************************************)
Detectors == {"buttonPressedReleased", "buttonPressedHeld"}

\* C14: resetButton leaves buttonState Reset whatever it was; after it, no
\* detector returns true until a detector call samples the line closed; and
\* resetButton leaves the decoder as it was.
C14_ResetDiscardsPress ==
  /\ [](op = "resetButton" => buttonState = BUTTON_RESET)
  /\ []((op \in Detectors /\ afterReset # "no") => ~ret)
  /\ [][op' = "resetButton" => UNCHANGED decoderVars]_vars

C14_Witness ==
  /\ op = "buttonPressedReleased"
  /\ afterReset = "discarded"
  /\ level # 0
  /\ Expired(clock, buttonTimer, delay)
  /\ ~ret
  /\ RowIndex(state) # R_START

\* C15: readButton returns Pressed exactly when the line reads low and
\* Released exactly when it reads high, and changes neither the button
\* fields nor the decoder.
C15_ReadButtonIsPure ==
  /\ [](op = "readButton" =>
          /\ (read = BUTTON_PRESSED) = (level = 0)
          /\ (read = BUTTON_RELEASED) = (level # 0))
  /\ [][op' = "readButton" =>
          UNCHANGED <<decoderVars, buttonState, buttonTimer>>]_vars

C15_Witness ==
  /\ op = "readButton"
  /\ level = 0
  /\ read = BUTTON_PRESSED
  /\ buttonState = BUTTON_PRESSED
  /\ buttonTimer > 0
  /\ RowIndex(state) # R_START

\* C18: once buttonState has been Reset, it is Reset or Pressed after every
\* call of any of the four button operations.
C18_ResetOrPressed ==
  everReset => buttonState \in {BUTTON_RESET, BUTTON_PRESSED}

C18_Witness ==
  /\ everReset
  /\ op = "buttonPressedReleased"
  /\ ret
  /\ buttonState = BUTTON_RESET
  /\ hT0 # NoTime

\* C19: the three-pin constructor leaves buttonState Reset, and while every
\* call samples the line open no detector returns true.
C19_ConstructedReset ==
  /\ op = "init" => buttonState = BUTTON_RESET
  /\ (op \in Detectors /\ ~sawClosed) => ~ret

\* C20, as claimed: whatever the time since the press and however often the
\* clock wrapped, a detector call that finds a press pending returns true
\* exactly when the time that really passed since the press exceeds the delay
\* and the line reads as the detector requires.
C20_ElapsedAcrossWrap ==
  (op \in Detectors /\ pending) =>
    ret = (since > delay /\ (level # 0) = (op = "buttonPressedReleased"))

\* C20, amended: the same, for calls made less than one period of the clock
\* (2^ClockWidth milliseconds) after the press was detected.
C20_ElapsedWithinPeriod ==
  (op \in Detectors /\ pending /\ since < Mod) =>
    ret = (since > delay /\ (level # 0) = (op = "buttonPressedReleased"))

C20_Witness ==
  /\ op \in Detectors
  /\ pending
  /\ since < Mod
  /\ ret
  /\ delay > 0
  /\ clock < buttonTimer


(***************************************************************************)
(* Properties of the decoder after a jump and in legal motion.             *)
(***************************************************************************)
\* The states from which a step starts.
StartStates(m) == IF m = "half" THEN {R_START, R_START_M} ELSE {R_START}

\* C16: a call whose sample differs from the previous sample in both bits
\* leaves the decoder in a start state, and no call after it returns a
\* direction up to and including the first that samples 00.
C16_QuietAfterJump ==
  op = "process" =>
    /\ TwoBitJump(prevPin, pinstate) => RowIndex(state) \in StartStates(mode)
    /\ inBar => result = DIR_NONE

\* C17: with the half-step table and samples that change one bit at a time
\* from the 00 of construction, a direction is returned exactly on arrival at
\* a settled sample other than the one visited last, clockwise when 11
\* follows 10 or 00 follows 01 and counter-clockwise otherwise, and the
\* events returned add up to the half-steps moved.
C17_LegalMotionCounts ==
  (op = "process" /\ mode = "half" /\ legal) =>
    /\ result = legalDir
    /\ err = 0

C17_Witness ==
  /\ op = "process"
  /\ mode = "half"
  /\ legal
  /\ Len(window) = MaxWindow
  /\ result = DIR_CCW
  /\ CountOut(window, DIR_CW) >= 1
  /\ \E i \in 1 .. Len(window) - 1 : window[i].pin = window[i + 1].pin

====
